---- MODULE Spec2Model ----
(***************************************************************************)
(* A model of the utsh shell of src/sh1.c: the main loop (sh_loop), the    *)
(* line reader with its raw terminal mode, the history store, the logical  *)
(* sequencer (sh_execute_logical) and the process orchestrator             *)
(* (sh_execute_simple) together with the child processes it forks.         *)
(*                                                                         *)
(* Strings are sequences of one-character strings; C arrays are functions  *)
(* over 0..n so that the indices are those of the source.                  *)
(***************************************************************************)
EXTENDS Integers, Sequences, FiniteSets, TLC

\* ------------------------------------------------------------------ bounds
\* number of lines the user enters in one session
MaxLines == 2
\* number of processes the system lets the shell fork in one session
MaxProcs == 3
\* number of add_to_history calls explored by the history specification
MaxRecorded == 52
\* number of bytes the editor specification reads for one line
MaxKeys == 4
\* length of the lines the tokenizer specification splits
MaxSplitLen == 4

\* --------------------------------------------------------------- constants
MAX_HISTORY == 50
MAX_MATCHES == 50
BUFFER_SIZE == 1024
EXIT_SUCCESS == 0
EXIT_FAILURE == 1

\* the null pointer; no C string of the model equals it
NULL == <<"NULL">>
\* exit statuses a program can terminate with
ExitStatuses == {0, 1}
\* the wait status of a process a signal has killed, as a shell shows it
KilledBySignal == 139

Digits == {"0", "1", "2", "3", "4", "5", "6", "7", "8", "9"}
\* the characters '\0' and '\a', which TLA+ strings cannot escape
NUL == "NUL"
BEL == "BEL"
\* the characters 127 and '\b'
DEL == "DEL"
BS == "BS"
TOKEN_DELIM_Blanks == {" ", "\t"}
TOKEN_DELIM == {" ", "\t", "\r", "\n", BEL}
AND == <<"&", "&">>
OR == <<"|", "|">>
PIPE == <<"|">>
AMP == <<"&">>
LT == <<"<">>
SEMI == <<";">>
CD == <<"c", "d">>
GT == <<">">>
GTGT == <<">", ">">>
\* the entries every directory has
DotEntries == {<<".">>, <<".", ".">>}
\* the directory the shell is started in
StartDir == <<"/">>
\* the file names of the model
FileNames == {<<"f">>, <<"g">>}

\* the lines the user can enter (without the terminator)
Lines ==
  { << >>,
    <<"a">>,
    <<"a", " ", "&">>,
    <<"a", " ", "&", "&", " ", "b">>,
    <<"a", " ", "|", "|", " ", "b">>,
    <<"a", " ", "|", " ", "b">>,
    <<"a", " ", "|", " ", "b", " ", "&">>,
    <<"!", "1">>,
    <<"!", "9">> }

\* lines with redirections, malformed pipelines and the word history
RedirLines ==
  { <<"h", "i", "s", "t", "o", "r", "y">>,
    <<"&">>,
    <<">", " ", "f">>,
    <<"a", " ", "|">>,
    <<"|", " ", "a">>,
    <<"a", " ", "|", " ", "|", " ", "b">>,
    <<"a", " ", ">">>,
    <<"a", " ", "|", " ", "b", " ", ">">>,
    <<"a", " ", ">", " ", "f", " ", "|", " ", "b">>,
    <<"a", " ", "|", " ", "b", " ", "<", " ", "f">>,
    <<"a", " ", ">", " ", "f", " ", ">", ">", " ", "g">>,
    <<"a", " ", ">", ">", " ", "f", " ", ">", " ", "g">>,
    <<"a", " ", "<", " ", "f", " ", "<", " ", "g">>,
    <<"a", " ", "x", " ", ">", " ", "f", " ", "y">>,
    <<"a", " ", ">", ">", " ", "f", " ", "&", "&", " ", "b", " ", ">", ">", " ", "f">>,
    <<"a", " ", "|", " ", "b", " ", "|", " ", "c">>,
    <<"a", " ", ";", " ", "b">>,
    <<"c", "d", " ", "d">> }

\* a background command and a chain whose first segment is a pipeline
ChainLines ==
  { <<"a", " ", "&">>,
    <<"a", " ", "|", " ", "b", " ", "&", "&", " ", "c">> }

\* ------------------------------------------------------- string functions
\* s[i] of a C string with 0-based i; the terminator is NUL
CharAt(s, i) == IF i < Len(s) THEN s[i + 1] ELSE NUL

isdigit(c) == c \in Digits

DigitVal(c) ==
  CASE c = "0" -> 0 [] c = "1" -> 1 [] c = "2" -> 2 [] c = "3" -> 3
    [] c = "4" -> 4 [] c = "5" -> 5 [] c = "6" -> 6 [] c = "7" -> 7
    [] c = "8" -> 8 [] c = "9" -> 9

RECURSIVE atoiFrom(_, _, _)
atoiFrom(s, i, acc) ==
  IF isdigit(CharAt(s, i)) THEN atoiFrom(s, i + 1, acc * 10 + DigitVal(CharAt(s, i)))
  ELSE acc

\* atoi(&s[from]) for a string of digits (no sign, no leading blanks here)
atoi(s, from) == atoiFrom(s, from, 0)

\* the decimal numeral of n >= 0 as a string
DigitChar(d) == CHOOSE c \in Digits : DigitVal(c) = d
RECURSIVE Numeral(_)
Numeral(n) == IF n < 10 THEN <<DigitChar(n)>> ELSE Numeral(n \div 10) \o <<DigitChar(n % 10)>>

\* strtok over the whole line: the maximal runs of non-delimiter characters
RECURSIVE strtokFrom(_, _, _, _)
strtokFrom(s, i, cur, acc) ==
  IF i >= Len(s) THEN (IF cur = << >> THEN acc ELSE Append(acc, cur))
  ELSE IF CharAt(s, i) \in TOKEN_DELIM
       THEN strtokFrom(s, i + 1, << >>, IF cur = << >> THEN acc ELSE Append(acc, cur))
       ELSE strtokFrom(s, i + 1, Append(cur, CharAt(s, i)), acc)

\* sh_split_line: the NULL-terminated token array
sh_split_line(l) ==
  LET toks == strtokFrom(l, 0, << >>, << >>)
  IN [i \in 0..Len(toks) |-> IF i < Len(toks) THEN toks[i + 1] ELSE NULL]

\* ------------------------------------------------------------ the history
\* the history array before the first command is saved
EmptyHistory == [i \in 0..(MAX_HISTORY - 1) |-> NULL]

\* add_to_history: the pair (history, history_count) after the call
StripNewline(command) ==
  LET len == Len(command)
  IN IF len > 0 /\ command[len] = "\n" THEN SubSeq(command, 1, len - 1)
     ELSE command

\* add_to_history with the shift of the full array left out: the newest
\* entry is overwritten instead of the oldest being evicted
add_to_history_NoShift(h, cnt, command) ==
  LET cmd == StripNewline(command)
  IN IF Len(cmd) = 0 THEN [history |-> h, history_count |-> cnt]
     ELSE IF cnt < MAX_HISTORY
          THEN [history |-> [h EXCEPT ![cnt] = cmd], history_count |-> cnt + 1]
          ELSE [history |-> [h EXCEPT ![MAX_HISTORY - 1] = cmd],
                history_count |-> cnt]

add_to_history(h, cnt, command) ==
  LET cmd == StripNewline(command)
  IN IF Len(cmd) = 0 THEN [history |-> h, history_count |-> cnt]
     ELSE IF cnt < MAX_HISTORY
          THEN [history |-> [h EXCEPT ![cnt] = cmd], history_count |-> cnt + 1]
          ELSE [history |-> [i \in 0..(MAX_HISTORY - 1) |->
                               IF i < MAX_HISTORY - 1 THEN h[i + 1] ELSE cmd],
                history_count |-> cnt]

\* get_history_command with a 0-based index
get_history_command_ZeroBased(h, cnt, index) ==
  IF index < 0 \/ index >= cnt THEN NULL ELSE h[index]

\* get_history_command: the entry at the 1-based index, or NULL
get_history_command(h, cnt, index) ==
  IF index <= 0 \/ index > cnt THEN NULL ELSE h[index - 1]

\* ------------------------------------------------- handle_redirection
\* a standard stream of a process: the terminal, one end of pipe number
\* pipe, or the file name opened in mode
TTY == [kind |-> "tty", pipe |-> -1, name |-> << >>, mode |-> ""]
PipeEnd(k, m) == [kind |-> "pipe", pipe |-> k, name |-> << >>, mode |-> m]
File(n, m) == [kind |-> "file", pipe |-> -1, name |-> n, mode |-> m]

\* the file system: file name -> contents, for the files that exist
NoFiles == [n \in {} |-> << >>]

\* open(name, O_WRONLY | O_CREAT | O_APPEND) on a file system that never
\* truncates
OpenWrite_NoTrunc(fs, n, m) ==
  [x \in DOMAIN fs \cup {n} |-> IF x \in DOMAIN fs THEN fs[x] ELSE << >>]

\* the file system after open(name, O_WRONLY | O_CREAT | O_TRUNC) (mode
\* "trunc") or open(name, O_WRONLY | O_CREAT | O_APPEND) (mode "append")
\* has succeeded
OpenWrite(fs, n, m) ==
  [x \in DOMAIN fs \cup {n} |->
     IF x = n /\ m = "trunc" THEN << >>
     ELSE IF x \in DOMAIN fs THEN fs[x] ELSE << >>]

\* the file system after a process has written data to its standard output
\* bound to file name n: at the end of the file in mode "append", at the
\* offset of the descriptor, which is 0, otherwise
WriteFile(fs, n, m, data) ==
  [fs EXCEPT ![n] =
     IF m = "append" THEN @ \o data
     ELSE data \o SubSeq(@, Len(data) + 1, Len(@))]

\* the shift loop of handle_redirection: j = i; while (args[j + 2] != NULL)
\* { args[j] = args[j + 2]; j++; } args[j] = NULL; args[j + 1] = NULL;
RECURSIVE ShiftFrom(_, _)
ShiftFrom(a, j) ==
  IF a[j + 2] # NULL THEN ShiftFrom([a EXCEPT ![j] = a[j + 2]], j + 1)
  ELSE [a EXCEPT ![j] = NULL, ![j + 1] = NULL]

Recheck_Advance(i) == i + 1

\* where the scan goes on after a removal: "continue", at the same index
Recheck(i) == i

Rebind_KeepFirst(cur, new) == IF cur.kind = "file" THEN cur ELSE new

\* dup2(fd, STDIN_FILENO) or dup2(fd, STDOUT_FILENO): the stream is bound
\* to the file just opened, whatever it was bound to
Rebind(cur, new) == new

\* handle_redirection from index i on.  a is the segment with its NULL
\* terminator, sin and sout the bindings of the standard streams, fs the
\* file system and np the files open() fails on.  The result is the return
\* value with the state all that leaves behind.
RECURSIVE HandleFrom(_, _, _, _, _, _)
HandleFrom(a, i, sin, sout, fs, np) ==
  LET done(rc) == [rc |-> rc, args |-> a, stdin |-> sin, stdout |-> sout,
                   files |-> fs]
  IN IF a[i] = NULL THEN done(0)
     ELSE IF a[i] = LT
     THEN IF a[i + 1] = NULL THEN done(-1)
          ELSE IF a[i + 1] \in np \/ a[i + 1] \notin DOMAIN fs THEN done(-1)
          ELSE HandleFrom(ShiftFrom(a, i), Recheck(i),
                          Rebind(sin, File(a[i + 1], "read")), sout, fs, np)
     ELSE IF a[i] = GTGT \/ a[i] = GT
     THEN LET m == IF a[i] = GTGT THEN "append" ELSE "trunc"
          IN IF a[i + 1] = NULL THEN done(-1)
             ELSE IF a[i + 1] \in np THEN done(-1)
             ELSE HandleFrom(ShiftFrom(a, i), Recheck(i), sin,
                             Rebind(sout, File(a[i + 1], m)),
                             OpenWrite(fs, a[i + 1], m), np)
     ELSE HandleFrom(a, i + 1, sin, sout, fs, np)

handle_redirection(a, sin, sout, fs, np) == HandleFrom(a, 0, sin, sout, fs, np)

\* ---------------------------------------------------------------- state
VARIABLES
  pc,             \* where the shell process is in sh_loop and its callees
  term,           \* the attributes of the terminal: "orig" or "raw"
  orig_termios,   \* the global orig_termios: "unset", or what tcgetattr saved
  atexit_set,     \* disableRawMode is registered with atexit
  exit_code,      \* the exit status of the shell process, -1 while it runs
  input_eof,      \* read() has returned 0: the input is at its end
  nlines,         \* number of sh_read_line calls so far
  line,           \* sh_loop's line
  status,         \* sh_loop's status: << >> before the first assignment, then <<value>>
  history,        \* the global history array
  history_count,  \* the global history_count
  args,           \* the token array of sh_loop, as the callees have changed it
  start,          \* sh_execute_logical: start
  opi,            \* sh_execute_logical: i, the index of the operator found
  op,             \* sh_execute_logical: op
  ret,            \* sh_execute_logical: ret
  background,     \* sh_execute_simple: background
  num_commands,   \* sh_execute_simple: num_commands
  pipefds,        \* sh_execute_simple: the pipe descriptors open in the shell
  fork_i,         \* sh_execute_simple: i of the fork loop
  pid,            \* sh_execute_simple: pid of the last fork
  waits,          \* sh_execute_simple: i of the wait loop
  procs,          \* the child processes: pid -> record
  next_pid,       \* the pid the next fork returns
  stdout,         \* what sh_execute_simple has printed in its current call
  tokens,         \* the token array as sh_split_line returned it
  ran,            \* the values of start sh_execute_simple was called with
  recorded,       \* every string a call of add_to_history has saved, in order
  recall_idx,     \* the argument of the last get_history_command call
  recall_res,     \* the result of the last get_history_command call
  lineset,        \* the lines the user of this session can enter
  files,          \* the file system: file name -> contents
  buffer,         \* sh_read_line: the characters stored in buffer
  pos,            \* sh_read_line: pos, the length of the line so far
  keys,           \* the bytes read() has delivered for the line being read
  entries,        \* the names readdir returns for the working directory
  opened,         \* whether the last opendir(".") of autocomplete succeeded
  bufsize,        \* sh_read_line: bufsize, the allocated size of buffer
  redrawn,        \* what autocomplete last printed after "utsh$ ", or NULL
  heap,           \* the blocks of malloc and strdup: address -> text, live
  cwd             \* the working directory of the shell process

vars == <<pc, term, orig_termios, atexit_set, exit_code, input_eof, nlines,
          line, status, history, history_count, args, start, opi, op, ret,
          background, num_commands, pipefds, fork_i, pid, waits, procs,
          next_pid, stdout, tokens, ran, recorded, recall_idx, recall_res,
          lineset, files, buffer, pos, keys, entries, opened, bufsize,
          redrawn, heap, cwd>>

termVars == <<term, orig_termios, atexit_set>>
loopVars == <<input_eof, nlines, line, status>>
histVars == <<history, history_count, recorded, recall_idx, recall_res>>
logicalVars == <<args, start, opi, op, ret, tokens, ran>>
simpleVars == <<background, num_commands, pipefds, fork_i, pid, waits, stdout>>
procVars == <<procs, next_pid>>
envVars == <<lineset, files>>
editVars == <<buffer, pos, keys, entries, opened, bufsize, redrawn>>

\* the shell process when main calls sh_loop
InitShell ==
  /\ pc = "prompt"
  /\ term = "orig"
  /\ orig_termios = "unset"
  /\ atexit_set = FALSE
  /\ exit_code = -1
  /\ input_eof = FALSE
  /\ nlines = 0
  /\ line = << >>
  /\ status = << >>
  /\ history = EmptyHistory
  /\ history_count = 0
  /\ args = sh_split_line(<< >>)
  /\ start = 0
  /\ opi = 0
  /\ op = NULL
  /\ ret = 0
  /\ background = 0
  /\ num_commands = 1
  /\ pipefds = {}
  /\ fork_i = 0
  /\ pid = 0
  /\ waits = 0
  /\ procs = << >>
  /\ next_pid = 1
  /\ stdout = << >>
  /\ tokens = sh_split_line(<< >>)
  /\ ran = {}
  /\ recorded = << >>
  /\ recall_idx = 0
  /\ recall_res = NULL
  /\ buffer = << >>
  /\ pos = 0
  /\ keys = << >>
  /\ opened = FALSE
  /\ bufsize = 0
  /\ redrawn = NULL
  /\ heap = << >>
  /\ cwd = StartDir

Init ==
  /\ InitShell
  /\ lineset = Lines
  /\ files = NoFiles
  /\ entries = DotEntries

\* ------------------------------------------------------- the terminal
\* disableRawMode: the attributes of the terminal after
\* tcsetattr(STDIN_FILENO, TCSAFLUSH, &orig_termios)
disableRawMode(saved) == saved

\* the exit handlers when enableRawMode does not register disableRawMode
AtExit_Unregistered(registered, saved, t) == t

\* the attributes of the terminal after the exit handlers of a process have
\* run: disableRawMode when enableRawMode has registered it with atexit
AtExit(registered, saved, t) == IF registered THEN disableRawMode(saved) ELSE t

\* exit(code) in the shell process
Exit(code) ==
  /\ pc' = "exited"
  /\ exit_code' = code
  /\ term' = AtExit(atexit_set, orig_termios, term)
  /\ UNCHANGED <<orig_termios, atexit_set>>

\* the prompt, then sh_read_line up to its read loop: enableRawMode, malloc
Prompt ==
  /\ pc = "prompt"
  /\ nlines < MaxLines
  /\ orig_termios' = term
  /\ atexit_set' = TRUE
  /\ \E ok \in BOOLEAN :
       IF ok THEN /\ term' = "raw"
                  /\ pc' = "read"
                  /\ UNCHANGED exit_code
       ELSE \* malloc failed in raw mode: "sh: allocation error", exit
            /\ term' = AtExit(TRUE, term, "raw")
            /\ pc' = "exited"
            /\ exit_code' = EXIT_FAILURE
  /\ UNCHANGED <<loopVars, histVars, logicalVars, simpleVars, procVars>>
  /\ UNCHANGED envVars
  /\ buffer' = << >>
  /\ pos' = 0
  /\ keys' = << >>
  /\ bufsize' = BUFFER_SIZE
  /\ redrawn' = NULL
  /\ UNCHANGED <<entries, opened, heap, cwd>>

\* the read loop of sh_read_line up to its return, disableRawMode included.
\* On a line terminator the buffer holds the line; when read returns 0 the
\* buffer is returned without a terminator, so that what the caller sees
\* in it is indeterminate.
ReadLine ==
  /\ pc = "read"
  /\ \E l \in lineset, eof \in BOOLEAN :
       /\ input_eof => eof
       /\ line' = l
       /\ input_eof' = eof
  /\ nlines' = nlines + 1
  /\ term' = disableRawMode(orig_termios)
  /\ pc' = "body"
  /\ UNCHANGED <<orig_termios, atexit_set, exit_code, status, histVars,
                 logicalVars, simpleVars, procVars>>
  /\ UNCHANGED envVars
  /\ UNCHANGED <<editVars, heap, cwd>>

\* the condition of the do-while of sh_loop; an uninitialized status is
\* indeterminate, and the loop may go either way
LoopGoesOn(st) == IF st = << >> THEN BOOLEAN ELSE {st[1] >= 0}

\* the end of one iteration of sh_loop: back to the prompt, or out of the
\* loop, where main returns EXIT_SUCCESS and the exit handlers run
LoopCond(st) ==
  \E go \in LoopGoesOn(st) :
    IF go THEN pc' = "prompt" /\ UNCHANGED <<termVars, exit_code>>
    ELSE Exit(EXIT_SUCCESS)

\* the "!" test of sh_loop: a line that starts with "!" and a digit
IsInvocation(l) == CharAt(l, 0) = "!" /\ isdigit(CharAt(l, 1))

ResolveLine_KeepsInvocation(l, history_command) == l

\* the line sh_loop goes on with: free(line); line = strdup(history_command)
\* for an invocation that names an entry, the line as read otherwise
ResolveLine(l, history_command) ==
  IF IsInvocation(l) THEN history_command ELSE l

\* sh_loop from the return of sh_read_line to the call of sh_execute_logical:
\* the history invocation, add_to_history and sh_split_line
Body ==
  /\ pc = "body"
  /\ LET bang == IsInvocation(line)
         cmd_num == atoi(line, 1)
         history_command == get_history_command(history, history_count, cmd_num)
         miss == bang /\ history_command = NULL
         resolved == ResolveLine(line, history_command)
         added == add_to_history(history, history_count, resolved)
     IN /\ recall_idx' = IF bang THEN cmd_num ELSE recall_idx
        /\ recall_res' = IF bang THEN history_command ELSE recall_res
        /\ IF miss
           THEN \* "No such command in history.": continue
                /\ LoopCond(status)
                /\ UNCHANGED <<line, history, history_count, recorded, args,
                               tokens, start, ret>>
           ELSE /\ line' = resolved
                /\ history' = added.history
                /\ history_count' = added.history_count
                /\ recorded' = IF Len(StripNewline(resolved)) = 0 THEN recorded
                               ELSE Append(recorded, StripNewline(resolved))
                /\ \E ok \in BOOLEAN :
                     IF ok THEN /\ args' = sh_split_line(resolved)
                                /\ tokens' = sh_split_line(resolved)
                                /\ start' = 0
                                /\ ret' = 0
                                /\ pc' = "logical"
                                /\ UNCHANGED <<termVars, exit_code>>
                     ELSE \* "sh: allocation error"
                          /\ Exit(EXIT_FAILURE)
                          /\ UNCHANGED <<args, tokens, start, ret>>
  /\ ran' = {}
  /\ UNCHANGED <<input_eof, nlines, status, opi, op, simpleVars, procVars>>
  /\ UNCHANGED envVars
  /\ UNCHANGED <<editVars, heap, cwd>>

\* ------------------------------------------------------ sh_execute_logical
\* the index of the first "&&", "||" or NULL of a at or after index i
RECURSIVE NextOperator(_, _)
NextOperator(a, i) ==
  IF a[i] # NULL /\ a[i] # AND /\ a[i] # OR THEN NextOperator(a, i + 1) ELSE i

\* the head of the loop of sh_execute_logical up to the call of
\* sh_execute_simple on the segment that begins at start
Logical ==
  /\ pc = "logical"
  /\ IF args[start] = NULL
     THEN \* the loop ends: return ret, then the rest of the loop body
          /\ status' = <<ret>>
          /\ LoopCond(<<ret>>)
          /\ UNCHANGED <<args, opi, op, ran>>
     ELSE LET i == NextOperator(args, start)
          IN /\ opi' = i
             /\ op' = args[i]
             /\ args' = [args EXCEPT ![i] = NULL]
             /\ ran' = ran \cup {start}
             /\ pc' = "simple"
             /\ UNCHANGED <<termVars, exit_code, status>>
  /\ UNCHANGED <<input_eof, nlines, line, histVars, start, ret, tokens,
                 simpleVars, procVars>>
  /\ UNCHANGED envVars
  /\ UNCHANGED <<editVars, heap, cwd>>

\* sh_execute_logical after sh_execute_simple has returned ret: break or
\* go on with the next segment; after a break, the rest of sh_loop's body
AfterSimple ==
  /\ pc = "simple_ret"
  /\ IF \/ op = NULL
        \/ op = AND /\ ret # 0
        \/ op = OR /\ ret = 0
     THEN /\ status' = <<ret>>
          /\ LoopCond(<<ret>>)
          /\ UNCHANGED start
     ELSE /\ start' = opi + 1
          /\ pc' = "logical"
          /\ UNCHANGED <<termVars, exit_code, status>>
  /\ UNCHANGED <<input_eof, nlines, line, histVars, args, opi, op, ret,
                 tokens, ran, simpleVars, procVars>>
  /\ UNCHANGED envVars
  /\ UNCHANGED <<editVars, heap, cwd>>

\* ------------------------------------------------------- sh_execute_simple
\* the number of tokens of a from index s to the first NULL
RECURSIVE CountArgs(_, _)
CountArgs(a, s) == IF a[s] = NULL THEN 0 ELSE 1 + CountArgs(a, s + 1)

\* the indices of the "|" tokens of a from index s to the first NULL
RECURSIVE PipeIndices(_, _)
PipeIndices(a, s) ==
  IF a[s] = NULL THEN {}
  ELSE (IF a[s] = PIPE THEN {s} ELSE {}) \cup PipeIndices(a, s + 1)

\* the test with the background flag ignored: the shell always waits
MustWait_Always(bg) == TRUE

\* the test "if (!background)" that sends the shell to its wait calls
MustWait(bg) == bg = 0

\* the value sh_execute_simple returns
SimpleStatus == 0

\* sh_execute_simple up to its first fork: the background flag, the count
\* of commands, the split into segments and the creation of the pipes
SimpleStart ==
  /\ pc = "simple"
  /\ stdout' = << >>
  /\ IF args[start] = NULL
     THEN /\ ret' = SimpleStatus
          /\ pc' = "simple_ret"
          /\ UNCHANGED <<termVars, exit_code, args, background, num_commands,
                         pipefds, fork_i>>
     ELSE LET count == CountArgs(args, start)
              bg == args[start + count - 1] = AMP
              args1 == IF bg THEN [args EXCEPT ![start + count - 1] = NULL] ELSE args
              bars == PipeIndices(args1, start)
              n == 1 + Cardinality(bars)
              num_pipes == n - 1
          IN /\ background' = IF bg THEN 1 ELSE 0
             /\ num_commands' = n
             /\ fork_i' = 0
             /\ IF n = 1
                THEN /\ args' = args1
                     /\ pc' = "fork"
                     /\ UNCHANGED <<termVars, exit_code, pipefds, ret>>
                ELSE \E cmds_ok \in BOOLEAN, made \in 0..num_pipes :
                       IF ~cmds_ok
                       THEN \* "Allocation error"
                            /\ Exit(EXIT_FAILURE)
                            /\ args' = args1
                            /\ UNCHANGED <<pipefds, ret>>
                       ELSE /\ args' = [i \in DOMAIN args1 |->
                                          IF i \in bars THEN NULL ELSE args1[i]]
                            /\ pipefds' = 0..(2 * made - 1)
                            /\ UNCHANGED ret
                            /\ IF made < num_pipes
                               THEN \* pipe() failed: perror, exit
                                    Exit(EXIT_FAILURE)
                               ELSE /\ pc' = "fork"
                                    /\ UNCHANGED <<termVars, exit_code>>
  /\ UNCHANGED <<loopVars, histVars, start, opi, op, tokens, ran, pid, waits,
                 procVars>>
  /\ UNCHANGED envVars
  /\ UNCHANGED <<editVars, heap, cwd>>

\* cmds[k] of sh_execute_simple: the index in args where segment k of the
\* pipeline that starts at s begins, one past the k-th "|" replaced by NULL
RECURSIVE cmds(_, _, _)
cmds(a, s, k) == IF k = 0 THEN s ELSE cmds(a, s + CountArgs(a, s) + 1, k - 1)

\* the array a pointer into args denotes: the tokens from base up to and
\* including the first NULL
Segment(a, base) == [i \in 0..CountArgs(a, base) |-> a[base + i]]

\* the process fork() creates for command idx of the current pipeline: a
\* copy of the shell, with its memory and its standard streams
NewProc(idx) ==
  [st |-> "forked", status |-> -1, ln |-> nlines, seg |-> start, idx |-> idx,
   n |-> num_commands, bg |-> background, ot |-> orig_termios, ax |-> atexit_set,
   cmd |-> Segment(args, cmds(args, start, idx)),
   argv |-> Segment(args, cmds(args, start, idx)),
   stdin |-> TTY, stdout |-> TTY, called |-> FALSE, prior |-> << >>,
   out |-> << >>, cwd |-> cwd, fds |-> pipefds]

\* one fork() of sh_execute_simple, in the shell process
Fork ==
  /\ pc = "fork"
  /\ \E ok \in BOOLEAN :
       /\ ok => next_pid <= MaxProcs
       /\ IF ok
          THEN /\ procs' = Append(procs, NewProc(fork_i))
               /\ next_pid' = next_pid + 1
               /\ pid' = next_pid
               /\ fork_i' = fork_i + 1
               /\ UNCHANGED <<termVars, exit_code>>
               /\ pc' = IF num_commands = 1 THEN "parent"
                        ELSE IF fork_i + 1 < num_commands THEN "fork" ELSE "close"
               /\ UNCHANGED ret
          ELSE /\ pid' = -1
               /\ UNCHANGED <<procVars, fork_i>>
               /\ IF num_commands = 1
                  THEN \* perror("fork"); return 0
                       /\ ret' = SimpleStatus
                       /\ pc' = "simple_ret"
                       /\ UNCHANGED <<termVars, exit_code>>
                  ELSE \* perror("fork"); exit(EXIT_FAILURE)
                       /\ Exit(EXIT_FAILURE)
                       /\ UNCHANGED ret
  /\ UNCHANGED <<loopVars, histVars, args, start, opi, op, tokens, ran,
                 background, num_commands, pipefds, waits, stdout>>
  /\ UNCHANGED envVars
  /\ UNCHANGED <<editVars, heap, cwd>>

\* the parent after the fork of a single command: waitpid(pid, NULL, 0),
\* which blocks until pid is a zombie, or the report of the background pid
SingleParent ==
  /\ pc = "parent"
  /\ IF MustWait(background)
     THEN /\ procs[pid].st = "zombie"
          /\ procs' = [procs EXCEPT ![pid].st = "reaped"]
          /\ UNCHANGED stdout
     ELSE /\ stdout' = Append(stdout, <<"Background pid", pid>>)
          /\ UNCHANGED procs
  /\ ret' = SimpleStatus
  /\ pc' = "simple_ret"
  /\ UNCHANGED <<termVars, exit_code, loopVars, histVars, args, start, opi,
                 op, tokens, ran, background, num_commands, pipefds, fork_i,
                 pid, waits, next_pid>>
  /\ UNCHANGED envVars
  /\ UNCHANGED <<editVars, heap, cwd>>

ParentCloses_None(fds) == fds

\* the pipe descriptors the shell holds after the loop that closes every
\* one of them
ParentCloses(fds) == {}

\* after the fork loop of a pipeline: the shell closes its pipe descriptors
\* and either goes to the wait loop or prints the background message
ParentClose ==
  /\ pc = "close"
  /\ pipefds' = ParentCloses(pipefds)
  /\ waits' = 0
  /\ IF MustWait(background)
     THEN pc' = "wait" /\ UNCHANGED <<stdout, ret>>
     ELSE /\ stdout' = Append(stdout, <<"Background pipeline started">>)
          /\ ret' = SimpleStatus
          /\ pc' = "simple_ret"
  /\ UNCHANGED <<termVars, exit_code, loopVars, histVars, args, start, opi,
                 op, tokens, ran, background, num_commands, fork_i, pid,
                 procVars>>
  /\ UNCHANGED envVars
  /\ UNCHANGED <<editVars, heap, cwd>>

\* the children of the shell that wait() can still report
Children == {p \in DOMAIN procs : procs[p].st # "reaped"}

\* one wait(NULL) of the wait loop: it returns at once with an error when
\* the shell has no child, and otherwise blocks until some child of the
\* shell, of this pipeline or not, is a zombie, and reaps it
Wait ==
  /\ pc = "wait"
  /\ \/ Children = {} /\ UNCHANGED procs
     \/ \E p \in Children :
          /\ procs[p].st = "zombie"
          /\ procs' = [procs EXCEPT ![p].st = "reaped"]
  /\ waits' = waits + 1
  /\ IF waits + 1 < num_commands
     THEN pc' = "wait" /\ UNCHANGED ret
     ELSE ret' = SimpleStatus /\ pc' = "simple_ret"
  /\ UNCHANGED <<termVars, exit_code, loopVars, histVars, args, start, opi,
                 op, tokens, ran, background, num_commands, pipefds, fork_i,
                 pid, stdout, next_pid>>
  /\ UNCHANGED envVars
  /\ UNCHANGED <<editVars, heap, cwd>>

\* ------------------------------------------------------ the child processes
\* the stream a descriptor of the pipefds array is an end of:
\* pipefds[2 * k] is the read end of pipe k, pipefds[2 * k + 1] its write end
PipeOfFd(j) == PipeEnd(j \div 2, IF j % 2 = 0 THEN "read" ELSE "write")

StdinFd_Own(i) == i * 2

\* the indices in pipefds of the descriptors child i of a pipeline dup2s
\* onto its standard input and its standard output
StdinFd(i) == (i - 1) * 2
StdoutFd(i) == i * 2 + 1

ChildCloses_None(fds) == fds

\* the pipe descriptors a child holds after the loop that closes every one
\* of them
ChildCloses(fds) == {}

\* the child's code after fork() up to execvp: the pipe rebinding first
\* and handle_redirection after it (in a pipeline), handle_redirection alone
\* (single command)
ChildSetup_RedirectFirst(r, fs, np) ==
  LET h == handle_redirection(r.argv, r.stdin, r.stdout, fs, np)
  IN [h EXCEPT !.stdin = IF r.n > 1 /\ r.idx # 0
                         THEN PipeOfFd(StdinFd(r.idx)) ELSE @,
               !.stdout = IF r.n > 1 /\ r.idx # r.n - 1
                          THEN PipeOfFd(StdoutFd(r.idx)) ELSE @]

ChildSetup(r, fs, np) ==
  LET sin == IF r.n > 1 /\ r.idx # 0
             THEN PipeOfFd(StdinFd(r.idx)) ELSE r.stdin
      sout == IF r.n > 1 /\ r.idx # r.n - 1
              THEN PipeOfFd(StdoutFd(r.idx)) ELSE r.stdout
  IN handle_redirection(r.argv, sin, sout, fs, np)

\* a child that goes on in the code of the shell after its failure
ChildFailure_Returns(r) == [r EXCEPT !.st = "returned"]

\* the child after handle_redirection or execvp has failed:
\* exit(EXIT_FAILURE), which leaves a zombie for the shell to reap
ChildFailure(r) == [r EXCEPT !.st = "zombie", !.status = EXIT_FAILURE]

\* the file names among the tokens of an array
NamedFiles(a) == {a[i] : i \in DOMAIN a} \cap FileNames

\* the child's code after fork(): the pipe rebinding, handle_redirection and
\* execvp.  When one of them fails the child calls exit(EXIT_FAILURE), which
\* runs the exit handlers the child has inherited.  execvp with a null file
\* name is undefined: it fails like any other, or the child is killed by a
\* signal, and then no exit handler runs.
ChildExec(p) ==
  /\ procs[p].st = "forked"
  /\ \E np \in SUBSET NamedFiles(procs[p].argv), ok \in BOOLEAN, killed \in BOOLEAN :
       LET r == procs[p]
           h == ChildSetup(r, files, np)
           r1 == [r EXCEPT !.argv = h.args, !.stdin = h.stdin,
                           !.stdout = h.stdout,
                           !.prior = IF h.stdout.kind = "file"
                                        /\ h.stdout.name \in DOMAIN files
                                     THEN files[h.stdout.name] ELSE << >>,
                           !.called = h.rc >= 0,
                           !.fds = IF r.n > 1 THEN ChildCloses(r.fds) ELSE @]
       IN /\ files' = h.files
          /\ ok => h.rc >= 0 /\ h.args[0] # NULL
          /\ killed => h.rc >= 0 /\ h.args[0] = NULL
          /\ IF ok
             THEN /\ procs' = [procs EXCEPT ![p] = [r1 EXCEPT !.st = "running"]]
                  /\ UNCHANGED term
             ELSE IF killed
             THEN /\ procs' = [procs EXCEPT ![p] = [r1 EXCEPT !.st = "zombie",
                                                    !.status = KilledBySignal]]
                  /\ UNCHANGED term
             ELSE /\ procs' = [procs EXCEPT ![p] = ChildFailure(r1)]
                  /\ term' = AtExit(r.ax, r.ot, term)
  /\ UNCHANGED <<pc, orig_termios, atexit_set, exit_code, loopVars, histVars,
                 logicalVars, simpleVars, next_pid>>
  /\ UNCHANGED lineset
  /\ UNCHANGED <<editVars, heap, cwd>>

\* the working directory of a process when its program ends with status s:
\* the program cd that succeeds has changed it to its argument
Chdir(r, s) ==
  IF r.argv[0] = CD /\ r.argv[1] # NULL /\ s = EXIT_SUCCESS THEN r.argv[1]
  ELSE r.cwd

\* what the program process p has become can write to its standard output
\* in the model: nothing, or one datum of its own; only what goes to a file
\* is kept
Outputs(p) ==
  IF procs[p].stdout.kind = "file" THEN {<< >>, <<p>>} ELSE {<< >>}

\* the program a child has become writes its output and terminates with
\* some status
ChildExit(p) ==
  /\ procs[p].st = "running"
  /\ \E s \in ExitStatuses, data \in Outputs(p) :
       /\ procs' = [procs EXCEPT ![p].st = "zombie", ![p].status = s,
                                 ![p].out = data,
                                 ![p].cwd = Chdir(procs[p], s)]
       /\ files' = IF procs[p].stdout.kind = "file"
                   THEN WriteFile(files, procs[p].stdout.name,
                                  procs[p].stdout.mode, data)
                   ELSE files
  /\ UNCHANGED <<pc, termVars, exit_code, loopVars, histVars, logicalVars,
                 simpleVars, next_pid>>
  /\ UNCHANGED lineset
  /\ UNCHANGED <<editVars, heap, cwd>>

\* ------------------------------------------------------- the specification
ShellStep ==
  \/ Prompt
  \/ Body
  \/ Logical
  \/ SimpleStart
  \/ Fork
  \/ SingleParent
  \/ ParentClose
  \/ Wait
  \/ AfterSimple

\* some child runs its code after fork()
ChildExecStep == \E p \in DOMAIN procs : ChildExec(p)

\* some program started by the shell terminates
ChildExitStep == \E p \in DOMAIN procs : ChildExit(p)

Next ==
  \/ ShellStep
  \/ ReadLine
  \/ ChildExecStep
  \/ ChildExitStep

Spec == Init /\ [][Next]_vars

\* the shell process takes its next step whenever it is not blocked; nothing
\* is assumed of the user or of the children
FairSpec == Spec /\ WF_vars(ShellStep)

\* -------------------------------------------- redirections on their own
\* the file systems a session can start with
InitialFiles ==
  { NoFiles, [n \in FileNames |-> <<0>>] }

\* the shell at its last prompt, after the user has entered nothing but
\* empty lines, when the next line is one of RedirLines
RedirInit ==
  /\ pc = "prompt"
  /\ term = "orig"
  /\ orig_termios = "orig"
  /\ atexit_set = TRUE
  /\ exit_code = -1
  /\ input_eof = FALSE
  /\ nlines = MaxLines - 1
  /\ line = << >>
  /\ status = <<0>>
  /\ history = EmptyHistory
  /\ history_count = 0
  /\ args = sh_split_line(<< >>)
  /\ start = 0
  /\ opi = 0
  /\ op = NULL
  /\ ret = 0
  /\ background = 0
  /\ num_commands = 1
  /\ pipefds = {}
  /\ fork_i = 0
  /\ pid = 0
  /\ waits = 0
  /\ procs = << >>
  /\ next_pid = 1
  /\ stdout = << >>
  /\ tokens = sh_split_line(<< >>)
  /\ ran = {}
  /\ recorded = << >>
  /\ recall_idx = 0
  /\ recall_res = NULL
  /\ lineset = RedirLines
  /\ files \in InitialFiles
  /\ buffer = << >>
  /\ pos = 0
  /\ keys = << >>
  /\ entries = DotEntries
  /\ opened = FALSE
  /\ bufsize = BUFFER_SIZE
  /\ redrawn = NULL
  /\ heap = << >>
  /\ cwd = StartDir

RedirSpec == RedirInit /\ [][Next]_vars

\* the processes that hold descriptor j of the pipes of the pipeline that
\* began at index seg of line ln: those not yet at the loop that closes the
\* descriptors, and those whose standard stream it has become
Holders(ln, seg, j) ==
  {q \in DOMAIN procs :
     /\ procs[q].ln = ln /\ procs[q].seg = seg
     /\ procs[q].st \in {"forked", "running"}
     /\ \/ j \in procs[q].fds
        \/ procs[q].stdin = PipeOfFd(j)
        \/ procs[q].stdout = PipeOfFd(j)}

\* the shell holds descriptor j of the pipes of that pipeline
ShellHolds(ln, seg, j) ==
  ln = nlines /\ seg = start /\ pc \notin {"exited"} /\ j \in pipefds

\* a read of process p from its standard input returns end-of-file once
\* the data is consumed: the input is no pipe, or nobody holds the write
\* end of the pipe
EofOnInput(p) ==
  \/ procs[p].stdin.kind # "pipe"
  \/ LET w == 2 * procs[p].stdin.pipe + 1
     IN /\ Holders(procs[p].ln, procs[p].seg, w) = {}
        /\ ~ShellHolds(procs[p].ln, procs[p].seg, w)

\* the steps of the children the scheduler does not put off for ever
ChildExecOf(p) == p \in DOMAIN procs /\ ChildExec(p)

\* the end of a program that ends by itself (the first of a pipeline) or
\* once it has read end-of-file
ChildExitAtEof(p) ==
  /\ p \in DOMAIN procs
  /\ procs[p].idx = 0 \/ EofOnInput(p)
  /\ ChildExit(p)

\* RedirSpec with a scheduler that lets the shell and every child go on,
\* and programs that end as ChildExitAtEof says
PipeFairSpec ==
  /\ RedirSpec
  /\ WF_vars(ShellStep)
  /\ \A p \in 1..MaxProcs : WF_vars(ChildExecOf(p)) /\ WF_vars(ChildExitAtEof(p))

\* ---------------------------------------------- chains with pipelines
\* a session of the shell whose user enters the lines of ChainLines
ChainInit ==
  /\ InitShell
  /\ lineset = ChainLines
  /\ files = NoFiles
  /\ entries = DotEntries

ChainSpec == ChainInit /\ [][Next]_vars

\* ------------------------------------------- the history store on its own
\* the strings add_to_history is called with: a fresh command, numbered by
\* its rank among the saved ones, with or without a trailing newline, and
\* the two strings that are not saved
HistCommands ==
  LET fresh == Numeral(Len(recorded) + 1)
  IN {fresh, fresh \o <<"\n">>, << >>, <<"\n">>}

\* the indices get_history_command is called with
RecallIndices == (-1)..(MaxRecorded + 1)

AddToHistory(command) ==
  /\ Len(recorded) < MaxRecorded
  /\ LET added == add_to_history(history, history_count, command)
     IN /\ history' = added.history
        /\ history_count' = added.history_count
  /\ recorded' = IF Len(StripNewline(command)) = 0 THEN recorded
                 ELSE Append(recorded, StripNewline(command))
  /\ UNCHANGED <<pc, termVars, exit_code, loopVars, logicalVars, simpleVars,
                 procVars, recall_idx, recall_res>>
  /\ UNCHANGED envVars
  /\ UNCHANGED <<editVars, heap, cwd>>

GetHistory(index) ==
  /\ recall_idx' = index
  /\ recall_res' = get_history_command(history, history_count, index)
  /\ UNCHANGED <<pc, termVars, exit_code, loopVars, logicalVars, simpleVars,
                 procVars, history, history_count, recorded>>
  /\ UNCHANGED envVars
  /\ UNCHANGED <<editVars, heap, cwd>>

\* some string is passed to add_to_history
AddToHistoryStep == \E command \in HistCommands : AddToHistory(command)

\* some index is passed to get_history_command
GetHistoryStep == \E index \in RecallIndices : GetHistory(index)

HistNext ==
  \/ AddToHistoryStep
  \/ GetHistoryStep

HistSpec == Init /\ [][HistNext]_vars

\* ------------------------------------------------ the tokenizer on its own
\* the characters of the lines to split: two that are no delimiter and the
\* five of TOKEN_DELIM
SplitChars == {"a", "b", " ", "\t", "\r", "\n", BEL}

\* the lines sh_split_line is called with
SplitInputs == UNION {[1..k -> SplitChars] : k \in 0..MaxSplitLen}

\* args = sh_split_line(line), for the first line of a session
SplitLine(l) ==
  /\ line = << >>
  /\ line' = l
  /\ args' = sh_split_line(l)
  /\ tokens' = sh_split_line(l)
  /\ UNCHANGED <<pc, termVars, exit_code, input_eof, nlines, status, histVars,
                 start, opi, op, ret, ran, simpleVars, procVars>>
  /\ UNCHANGED envVars
  /\ UNCHANGED <<editVars, heap, cwd>>

\* some line is split
SplitLineStep == \E l \in SplitInputs : SplitLine(l)

SplitSpec == Init /\ [][SplitLineStep]_vars

\* --------------------------------------------------- the line editor
\* the bytes read() delivers: characters that are stored, the two
\* backspaces, the tab and the two line terminators
RegularKeys == {"a", "b", " "}
Terminators == {"\r", "\n"}
EditKeys == RegularKeys \cup {DEL, BS, "\t"}

\* the directories autocomplete can find itself in
Directories ==
  { DotEntries,
    DotEntries \cup {<<"a", "b">>},
    DotEntries \cup {<<"a", "b">>, <<"a", "a">>},
    DotEntries \cup {<<"b">>, <<"a", "b", "a">>} }

\* buffer[p] = cs[0]; buffer[p + 1] = cs[1]; ...: what lay there is
\* overwritten, what lies behind stays
StoreAt(buf, p, cs) ==
  SubSeq(buf, 1, p) \o cs \o SubSeq(buf, p + Len(cs) + 1, Len(buf))

Backspace_Ignored(p) == p

\* the backspace branch of sh_read_line: if (pos > 0) pos--
Backspace(p) == IF p > 0 THEN p - 1 ELSE p

\* the scan of autocomplete for the start of the current word:
\* while (start >= 0 && buffer[start] != ' ') start--
RECURSIVE ScanBack(_, _)
ScanBack(buf, st) ==
  IF st >= 0 /\ buf[st + 1] # " " THEN ScanBack(buf, st - 1) ELSE st

IsMatch_Exact(name, partial) == name = partial

\* strncmp(entry->d_name, partial, strlen(partial)) == 0
IsMatch(name, partial) ==
  /\ Len(name) >= Len(partial)
  /\ SubSeq(name, 1, Len(partial)) = partial

\* autocomplete(buffer, pos) in a directory with the entries ents, where
\* ok tells whether opendir(".") succeeds: the buffer and the value returned
autocomplete(buf, p, ents, ok) ==
  LET st == ScanBack(buf, p - 1) + 1
      len == p - st
      partial == SubSeq(buf, st + 1, p)
      matches == {e \in ents : IsMatch(e, partial)}
      found == IF Cardinality(matches) >= MAX_MATCHES THEN MAX_MATCHES
               ELSE Cardinality(matches)
  IN IF ~ok \/ found # 1 THEN [buffer |-> buf, pos |-> p]
     ELSE LET match == CHOOSE e \in matches : TRUE
              rest == SubSeq(match, len + 1, Len(match))
          IN [buffer |-> StoreAt(buf, p, rest), pos |-> p + Len(rest)]

\* match_count of autocomplete(buffer, pos) in a directory with the entries
\* ents
MatchCount(buf, p, ents) ==
  LET st == ScanBack(buf, p - 1) + 1
      partial == SubSeq(buf, st + 1, p)
      matches == {e \in ents : IsMatch(e, partial)}
  IN IF Cardinality(matches) >= MAX_MATCHES THEN MAX_MATCHES
     ELSE Cardinality(matches)

\* autocomplete takes its last branch: it lists the matches and redraws
Lists(buf, p, ents, ok) == ok /\ MatchCount(buf, p, ents) > 1

\* what the memory behind the bytes stored in the buffer can hold up to its
\* first NUL: malloc and realloc do not initialise it
Garbage == {<< >>, <<"?">>}

\* printf("\nutsh$ %s", buffer) after the prompt: the bytes of the buffer
\* up to the first NUL.  No NUL is among the bytes stored, so these are all
\* the bytes ever stored for this line, deleted or not, and then what lies
\* behind them
Redraw(buf, g) == buf \o g

\* if (pos >= bufsize - 1): the buffer is grown by BUFFER_SIZE
Grows(p, size) == p >= size - 1

\* a byte has been stored at an index that is not below the allocated size
Overrun(p, size) == p > size

\* the first bytes of a line that fills the buffer but for LongLineGap
\* bytes, and the number of bytes the editor specifications read: MaxKeys
\* from the start of a line, or MaxKeys after the first LongLine
LongLineGap == 3
LongLine == BUFFER_SIZE - LongLineGap
KeyLimit == IF Len(keys) >= LongLine THEN LongLine + MaxKeys ELSE MaxKeys

\* the buffer and pos after the branch of the loop for the byte c
Stored(c, ok) ==
  IF c \in {DEL, BS} THEN [buffer |-> buffer, pos |-> Backspace(pos)]
  ELSE IF c = "\t" THEN autocomplete(buffer, pos, entries, ok)
  ELSE [buffer |-> StoreAt(buffer, pos, <<c>>), pos |-> pos + 1]

\* one pass of the loop of sh_read_line for a byte that does not end the
\* line, with the check of the size that ends the pass.  A byte stored
\* behind the allocation is undefined behaviour: the process goes on, or is
\* killed by a signal at once.
TypeKey(c) ==
  /\ pc = "read"
  /\ Len(keys) < KeyLimit
  /\ keys' = Append(keys, c)
  /\ \E ok \in (IF c = "\t" THEN BOOLEAN ELSE {TRUE}) :
       LET r == Stored(c, ok)
           lists == c = "\t" /\ Lists(buffer, pos, entries, ok)
       IN /\ buffer' = r.buffer
          /\ pos' = r.pos
          /\ opened' = IF c = "\t" THEN ok ELSE opened
          /\ \E g \in (IF lists THEN Garbage ELSE {<< >>}) :
               redrawn' = IF lists THEN Redraw(buffer, g) ELSE redrawn
          /\ \E killed \in (IF Overrun(r.pos, bufsize) THEN BOOLEAN ELSE {FALSE}),
                grown \in (IF Grows(r.pos, bufsize) THEN BOOLEAN ELSE {TRUE}) :
               IF killed
               THEN /\ pc' = "exited"
                    /\ exit_code' = KilledBySignal
                    /\ UNCHANGED <<termVars, bufsize>>
               ELSE IF ~Grows(r.pos, bufsize)
               THEN UNCHANGED <<pc, termVars, exit_code, bufsize>>
               ELSE IF grown
               THEN /\ bufsize' = bufsize + BUFFER_SIZE
                    /\ UNCHANGED <<pc, termVars, exit_code>>
               ELSE \* realloc failed: "sh: allocation error", exit
                    /\ Exit(EXIT_FAILURE)
                    /\ UNCHANGED bufsize
  /\ UNCHANGED <<loopVars, histVars, logicalVars, simpleVars, procVars,
                 envVars, entries, heap, cwd>>

\* the pass of the loop for '\r' or '\n': buffer[pos] = '\0', then
\* disableRawMode and the return of the buffer
Enter(c) ==
  /\ pc = "read"
  /\ keys' = Append(keys, c)
  /\ line' = SubSeq(buffer, 1, pos)
  /\ nlines' = nlines + 1
  /\ term' = disableRawMode(orig_termios)
  /\ pc' = "body"
  /\ UNCHANGED <<orig_termios, atexit_set, exit_code, input_eof, status,
                 histVars, logicalVars, simpleVars, procVars, envVars,
                 buffer, pos, entries, opened, bufsize, redrawn, heap,
                 cwd>>

\* read() returns 0 or fails: the loop is left and the buffer returned as
\* it is, without a terminator; where the string in it ends is indeterminate
EndOfInput ==
  /\ pc = "read"
  /\ \E end \in pos..Len(buffer) : line' = SubSeq(buffer, 1, end)
  /\ input_eof' = TRUE
  /\ nlines' = nlines + 1
  /\ term' = disableRawMode(orig_termios)
  /\ pc' = "body"
  /\ UNCHANGED <<orig_termios, atexit_set, exit_code, status, histVars,
                 logicalVars, simpleVars, procVars, envVars, editVars, heap,
                 cwd>>

TypeKeyStep == \E c \in EditKeys : TypeKey(c)

EnterStep == \E c \in Terminators : Enter(c)

EditNext ==
  \/ Prompt
  \/ TypeKeyStep
  \/ EnterStep
  \/ EndOfInput

\* the shell in one of the directories
EditInit ==
  /\ InitShell
  /\ lineset = Lines
  /\ files = NoFiles
  /\ entries \in Directories

EditSpec == EditInit /\ [][EditNext]_vars

\* ------------------------------------------------- the editor, long lines
\* directories with one name that begins with a, two and three bytes longer
GrowDirectories ==
  { DotEntries \cup {<<"a", "b", "a">>},
    DotEntries \cup {<<"a", "b", "a", "b">>} }

\* sh_read_line in its read loop on the first line of a session, when the
\* user has typed LongLine blanks
GrowInit ==
  /\ pc = "read"
  /\ term = "raw"
  /\ orig_termios = "orig"
  /\ atexit_set = TRUE
  /\ exit_code = -1
  /\ input_eof = FALSE
  /\ nlines = 0
  /\ line = << >>
  /\ status = << >>
  /\ history = EmptyHistory
  /\ history_count = 0
  /\ args = sh_split_line(<< >>)
  /\ start = 0
  /\ opi = 0
  /\ op = NULL
  /\ ret = 0
  /\ background = 0
  /\ num_commands = 1
  /\ pipefds = {}
  /\ fork_i = 0
  /\ pid = 0
  /\ waits = 0
  /\ procs = << >>
  /\ next_pid = 1
  /\ stdout = << >>
  /\ tokens = sh_split_line(<< >>)
  /\ ran = {}
  /\ recorded = << >>
  /\ recall_idx = 0
  /\ recall_res = NULL
  /\ lineset = Lines
  /\ files = NoFiles
  /\ buffer = [i \in 1..LongLine |-> " "]
  /\ pos = LongLine
  /\ keys = [i \in 1..LongLine |-> " "]
  /\ entries \in GrowDirectories
  /\ opened = FALSE
  /\ bufsize = BUFFER_SIZE
  /\ redrawn = NULL
  /\ heap = << >>
  /\ cwd = StartDir

GrowNext ==
  \/ TypeKeyStep
  \/ EnterStep
  \/ EndOfInput

GrowSpec == GrowInit /\ [][GrowNext]_vars

\* ------------------------------------------- sh_loop and the memory blocks
\* In this specification line and the entries of history are what they are
\* in the program, addresses of blocks; an address is an index of heap.
\* a block as malloc or strdup returns it, holding the bytes of text before
\* its terminator
Block(text) == [text |-> text, live |-> TRUE]

\* the address of the i-th block of the heap, and the block an address is of
Addr(i) == <<"block", i>>
BlockOf(p) == p[2]

\* the string a pointer to the start of bytes denotes: the bytes before the
\* first NUL
UpToNul(bytes) ==
  LET nuls == {i \in 1..Len(bytes) : bytes[i] = NUL}
  IN IF nuls = {} THEN bytes
     ELSE SubSeq(bytes, 1, (CHOOSE i \in nuls : \A j \in nuls : i <= j) - 1)

\* the string read at address p; reading a block that was freed is
\* undefined and gives g
StringAt(hp, p, g) ==
  IF hp[BlockOf(p)].live THEN UpToNul(hp[BlockOf(p)].text) ELSE g

strdup_Alias(hp, p, g) == [heap |-> hp, ptr |-> p]

\* strdup(p): a new block with a copy of the string at p, and its address
strdup(hp, p, g) ==
  [heap |-> Append(hp, Block(StringAt(hp, p, g))), ptr |-> Addr(Len(hp) + 1)]

\* free(p)
free(hp, p) == [hp EXCEPT ![BlockOf(p)].live = FALSE]

\* the bytes of a line after the strtok calls of sh_split_line: the
\* delimiter that ends a token is overwritten with NUL
StrtokBytes(bytes) ==
  [i \in 1..Len(bytes) |->
     IF i > 1 /\ bytes[i] \in TOKEN_DELIM /\ bytes[i - 1] \notin TOKEN_DELIM
     THEN NUL ELSE bytes[i]]

\* the bytes of command after add_to_history has cut a trailing newline
CutNewline(bytes) ==
  IF Len(bytes) > 0 /\ bytes[Len(bytes)] = "\n"
  THEN [bytes EXCEPT ![Len(bytes)] = NUL] ELSE bytes

\* add_to_history(command) on the blocks: the heap, the array and the count
\* after the call
AddToHistoryBlocks(hp, h, cnt, command, g) ==
  LET cut == IF hp[BlockOf(command)].live
             THEN [hp EXCEPT ![BlockOf(command)].text = CutNewline(UpToNul(@))]
             ELSE hp
  IN IF Len(StringAt(cut, command, g)) = 0
     THEN [heap |-> cut, history |-> h, history_count |-> cnt]
     ELSE IF cnt < MAX_HISTORY
     THEN LET d == strdup(cut, command, g)
          IN [heap |-> d.heap, history |-> [h EXCEPT ![cnt] = d.ptr],
              history_count |-> cnt + 1]
     ELSE LET d == strdup(free(cut, h[0]), command, g)
          IN [heap |-> d.heap,
              history |-> [i \in 0..(MAX_HISTORY - 1) |->
                             IF i < MAX_HISTORY - 1 THEN h[i + 1] ELSE d.ptr],
              history_count |-> cnt]

\* the command the user enters as the k-th of a session
MemCommand(k) == <<"c", " ">> \o Numeral(k)

\* the numbers of commands entered before the part of a session that is
\* explored: none, or one less than the history holds
MemStarts == {0, MAX_HISTORY - 1}

\* the lines the user enters next: a new command, the recall of the oldest
\* entry or of the one at the last index, a recall past the end, nothing
MemLines ==
  { MemCommand(nlines + 1),
    <<"!", "1">>,
    <<"!">> \o Numeral(MAX_HISTORY),
    <<"!">> \o Numeral(MAX_HISTORY + 1),
    << >> }

\* the shell at its prompt after n0 commands MemCommand(1) .. MemCommand(n0)
MemInit ==
  \E n0 \in MemStarts :
    /\ pc = "prompt"
    /\ term = "orig"
    /\ orig_termios = IF n0 = 0 THEN "unset" ELSE "orig"
    /\ atexit_set = (n0 > 0)
    /\ exit_code = -1
    /\ input_eof = FALSE
    /\ nlines = n0
    /\ line = NULL
    /\ status = IF n0 = 0 THEN << >> ELSE <<0>>
    /\ heap = [i \in 1..n0 |-> Block(MemCommand(i))]
    /\ history = [i \in 0..(MAX_HISTORY - 1) |-> IF i < n0 THEN Addr(i + 1)
                                                 ELSE NULL]
    /\ history_count = n0
    /\ recorded = [i \in 1..n0 |-> MemCommand(i)]
    /\ args = sh_split_line(<< >>)
    /\ start = 0
    /\ opi = 0
    /\ op = NULL
    /\ ret = 0
    /\ background = 0
    /\ num_commands = 1
    /\ pipefds = {}
    /\ fork_i = 0
    /\ pid = 0
    /\ waits = 0
    /\ procs = << >>
    /\ next_pid = 1
    /\ stdout = << >>
    /\ tokens = sh_split_line(<< >>)
    /\ ran = {}
    /\ recall_idx = 0
    /\ recall_res = NULL
    /\ lineset = Lines
    /\ files = NoFiles
    /\ buffer = << >>
    /\ pos = 0
    /\ keys = << >>
    /\ entries = DotEntries
    /\ opened = FALSE
    /\ bufsize = IF n0 = 0 THEN 0 ELSE BUFFER_SIZE
    /\ redrawn = NULL
    /\ cwd = StartDir

\* the prompt and sh_read_line: the line entered, in a new block
MemRead ==
  /\ pc = "prompt"
  /\ \E s \in MemStarts : s <= nlines /\ nlines < s + MaxLines
  /\ \E l \in MemLines :
       /\ heap' = Append(heap, Block(l))
       /\ line' = Addr(Len(heap) + 1)
  /\ nlines' = nlines + 1
  /\ orig_termios' = term
  /\ atexit_set' = TRUE
  /\ bufsize' = BUFFER_SIZE
  /\ pc' = "body"
  /\ UNCHANGED <<term, exit_code, input_eof, status, histVars, logicalVars,
                 simpleVars, procVars, envVars, buffer, pos, keys, entries,
                 opened, redrawn, cwd>>

\* sh_loop from the return of sh_read_line to the call of
\* sh_execute_logical: free(line) and line = strdup(history_command) for an
\* invocation, then add_to_history(line) and sh_split_line(line), whose
\* strtok writes into the block of line
MemBody ==
  /\ pc = "body"
  /\ \E g \in Garbage :
       LET l == StringAt(heap, line, g)
           bang == IsInvocation(l)
           cmd_num == atoi(l, 1)
           history_command == get_history_command(history, history_count, cmd_num)
           miss == bang /\ history_command = NULL
           d == IF bang THEN strdup(free(heap, line), history_command, g)
                ELSE [heap |-> heap, ptr |-> line]
           added == AddToHistoryBlocks(d.heap, history, history_count, d.ptr, g)
           resolved == StringAt(added.heap, d.ptr, g)
       IN /\ recall_idx' = IF bang THEN cmd_num ELSE recall_idx
          /\ recall_res' = IF bang THEN history_command ELSE recall_res
          /\ IF miss
             THEN \* "No such command in history.": free(line); continue
                  /\ heap' = free(heap, line)
                  /\ line' = NULL
                  /\ LoopCond(status)
                  /\ UNCHANGED <<history, history_count, recorded, args, tokens>>
             ELSE /\ line' = d.ptr
                  /\ history' = added.history
                  /\ history_count' = added.history_count
                  /\ recorded' = IF Len(resolved) = 0 THEN recorded
                                 ELSE Append(recorded, resolved)
                  /\ args' = sh_split_line(resolved)
                  /\ tokens' = sh_split_line(resolved)
                  /\ heap' = IF added.heap[BlockOf(d.ptr)].live
                             THEN [added.heap EXCEPT
                                     ![BlockOf(d.ptr)].text = StrtokBytes(@)]
                             ELSE added.heap
                  /\ pc' = "run"
                  /\ UNCHANGED <<termVars, exit_code>>
  /\ UNCHANGED <<input_eof, nlines, status, start, opi, op, ret, ran,
                 simpleVars, procVars, envVars, editVars, cwd>>

\* the rest of the body once sh_execute_logical has returned 0: free(line),
\* free(args) and the test of the loop.  (sh_execute_logical and its
\* callees write to the array args and to no block of text.)
MemEnd ==
  /\ pc = "run"
  /\ heap' = free(heap, line)
  /\ line' = NULL
  /\ status' = <<SimpleStatus>>
  /\ LoopCond(<<SimpleStatus>>)
  /\ UNCHANGED <<input_eof, nlines, histVars, logicalVars, simpleVars,
                 procVars, envVars, editVars, cwd>>

MemNext ==
  \/ MemRead
  \/ MemBody
  \/ MemEnd

MemSpec == MemInit /\ [][MemNext]_vars

\* ----------------------------------------------------------- the claims
\* the operator that followed, in the line as it was split, the segment
\* that begins at index s
OpAfter(s) == tokens[NextOperator(tokens, s)]

\* sh_execute_logical has returned for the last line read
ChainDone == pc \in {"prompt", "read"}

\* the processes forked for the pipeline that began at index s of this line
Pipeline(s) == {p \in DOMAIN procs : procs[p].ln = nlines /\ procs[p].seg = s}

\* the processes of the last command of a foreground pipeline of this line
LastOfForeground ==
  {p \in DOMAIN procs : /\ procs[p].ln = nlines
                        /\ procs[p].bg = 0
                        /\ procs[p].idx = procs[p].n - 1}

Terminated(p) == procs[p].st \in {"zombie", "reaped"}

\* C1: in a chain A && B, when the pipeline A has finished with a non-zero
\* exit status, no segment after A is executed and the status of the chain
\* is not success.
C1_AndStopsOnFailure ==
  \A p \in LastOfForeground :
    (procs[p].status > 0 /\ OpAfter(procs[p].seg) = AND)
      => /\ \A s \in ran : s <= procs[p].seg
         /\ ChainDone => status[1] # 0

\* C2: in a chain A || B, B is executed if and only if A fails: after a
\* non-zero exit status of A the chain does not end before B was executed,
\* and after the success of A no later segment is executed and the status of
\* the chain is success.
C2_OrRunsIffFailure ==
  \A p \in LastOfForeground :
    (procs[p].status >= 0 /\ OpAfter(procs[p].seg) = OR)
      => IF procs[p].status = 0
         THEN /\ \A s \in ran : s <= procs[p].seg
              /\ ChainDone => status[1] = 0
         ELSE ChainDone => (NextOperator(tokens, procs[p].seg) + 1) \in ran

\* C3: when sh_execute_simple returns from a foreground pipeline, the status
\* it returns is the exit status of the process of the last segment.
C3_StatusOfLastSegment ==
  (pc = "simple_ret" /\ background = 0)
    => \A p \in Pipeline(start) :
         procs[p].idx = procs[p].n - 1 => ret = procs[p].status

\* C4: when sh_execute_simple returns from a foreground pipeline, every
\* child it has forked for this pipeline has terminated.
C4_ForegroundWaitsForAll ==
  (pc = "simple_ret" /\ background = 0)
    => \A p \in Pipeline(start) : Terminated(p)

\* the shell has forked the children of a background pipeline
BackgroundSpawned == pc \in {"parent", "close"} /\ background = 1

\* C5: once the children of a pipeline that ends in "&" are forked,
\* sh_execute_simple returns, whether or not any child ever terminates.
C5_BackgroundReturns == BackgroundSpawned ~> (pc = "simple_ret")

\* sh_execute_simple has returned from a background pipeline none of whose
\* children has terminated
C5_Witness ==
  /\ pc = "simple_ret"
  /\ background = 1
  /\ Pipeline(start) # {}
  /\ \A p \in Pipeline(start) : ~Terminated(p)

\* C6: when sh_execute_simple returns from a background pipeline, it has
\* printed the pid of every child it has forked for the pipeline, and the
\* status it returns is success.
C6_BackgroundReportsPids ==
  (pc = "simple_ret" /\ background = 1)
    => /\ \A p \in Pipeline(start) :
            \E k \in DOMAIN stdout : stdout[k] = <<"Background pid", p>>
       /\ ret = 0

\* C7: once read() has returned 0 in sh_read_line, the shell forks no
\* process and does not read again: the session ends.
C7_EofEndsSession ==
  [][input_eof => (next_pid' = next_pid /\ pc' # "read")]_vars

\* C8: whenever the shell is not inside sh_read_line, and after it has
\* exited, the attributes of the terminal are the original ones.
C8_TerminalRestored == pc # "read" => term = "orig"

\* the shell has left by exit(EXIT_FAILURE) after it had enabled raw mode
C8_Witness ==
  /\ pc = "exited"
  /\ exit_code = EXIT_FAILURE
  /\ atexit_set
  /\ term = "orig"

Min(a, b) == IF a < b THEN a ELSE b

\* C9: the history holds at most MAX_HISTORY entries, and they are the most
\* recently saved strings, in the order they were saved.
C9_HistoryKeepsNewest ==
  LET total == Len(recorded)
  IN /\ history_count = Min(total, MAX_HISTORY)
     /\ \A i \in 0..(MAX_HISTORY - 1) :
          history[i] = IF i < history_count
                       THEN recorded[total - history_count + i + 1]
                       ELSE NULL

\* a save into the full history has evicted the oldest entry
C9_Witness ==
  /\ Len(recorded) > MAX_HISTORY
  /\ history[0] = recorded[Len(recorded) - MAX_HISTORY + 1]
  /\ history[MAX_HISTORY - 1] = recorded[Len(recorded)]

\* C10 as claimed: the index of get_history_command counts every string
\* ever saved, so that the index of an evicted entry gives NULL and the
\* index equal to the number of saved strings gives the newest one.
C10_IndexOverAllRecorded ==
  LET total == Len(recorded)
  IN \A n \in RecallIndices :
       get_history_command(history, history_count, n) =
         IF n >= 1 /\ n <= total /\ n > total - MAX_HISTORY
         THEN recorded[n] ELSE NULL

\* C10 as amended: the index of get_history_command counts the resident
\* entries, oldest first; an index from 1 to history_count gives that
\* resident entry and any other index gives NULL.
C10_IndexOverResident ==
  LET total == Len(recorded)
  IN \A n \in RecallIndices :
       get_history_command(history, history_count, n) =
         IF n >= 1 /\ n <= history_count
         THEN recorded[total - history_count + n] ELSE NULL

\* after an eviction, index 1 has given the oldest resident entry
C10_Witness ==
  /\ Len(recorded) > MAX_HISTORY
  /\ recall_idx = 1
  /\ recall_res = get_history_command(history, history_count, 1)
  /\ recall_res = recorded[Len(recorded) - MAX_HISTORY + 1]

\* C11: when a line "!n" names a resident entry, the whole line is replaced
\* by that entry's text before it is split into tokens: the entry's text is
\* what is recorded and what goes to execution.  (pc leaves "body" in the
\* step of the shell; the steps of the children leave it there.)
C11_RecallReplacesLine ==
  [][LET hc == get_history_command(history, history_count, atoi(line, 1))
     IN (pc = "body" /\ pc' # "body" /\ IsInvocation(line) /\ hc # NULL)
          => /\ line' = hc
             /\ recorded' = Append(recorded, hc)
             /\ pc' = "logical" => /\ tokens' = sh_split_line(hc)
                                   /\ args' = sh_split_line(hc)
                                   /\ start' = 0]_vars

C11_Witness ==
  /\ pc = "logical"
  /\ nlines = 2
  /\ recall_idx = 1
  /\ recall_res # NULL
  /\ line = recall_res
  /\ recorded = <<recall_res, recall_res>>
  /\ tokens = sh_split_line(recall_res)

\* C12: a line "!n" that names no entry records nothing, executes nothing
\* and leads to the next prompt; it never ends the session, the first line
\* entered included.
C12_MissGoesOn ==
  [][(/\ pc = "body"
      /\ pc' # "body"
      /\ IsInvocation(line)
      /\ get_history_command(history, history_count, atoi(line, 1)) = NULL)
       => /\ pc' = "prompt"
          /\ recorded' = recorded
          /\ history' = history
          /\ history_count' = history_count
          /\ next_pid' = next_pid]_vars

\* the command word history
HistoryWord == <<"h", "i", "s", "t", "o", "r", "y">>

\* C13: no entry of the history is the command history itself: entering
\* history leaves the store as it was.
C13_HistoryNotRecorded ==
  /\ \A i \in 1..Len(recorded) : recorded[i] # HistoryWord
  /\ \A i \in 0..(history_count - 1) : history[i] # HistoryWord

\* the redirection operators
RedirOps == {LT, GT, GTGT}

\* the tokens of a segment other than the redirection operators and the
\* token that follows each of them
RECURSIVE Residual(_)
Residual(t) ==
  IF t = << >> THEN << >>
  ELSE IF Head(t) \in RedirOps
  THEN (IF Len(t) = 1 THEN << >> ELSE Residual(Tail(Tail(t))))
  ELSE <<Head(t)>> \o Residual(Tail(t))

\* an array of tokens up to its NULL, as a sequence
RECURSIVE AsSeq(_, _)
AsSeq(a, i) == IF a[i] = NULL THEN << >> ELSE <<a[i]>> \o AsSeq(a, i + 1)

\* C14: whenever execvp is called its argument list is not empty, and no
\* execution is attempted for a segment that has no token besides "&" and
\* redirections with their targets.
C14_ExecArgsNonEmpty ==
  \A p \in DOMAIN procs :
    procs[p].called => /\ procs[p].argv[0] # NULL
                       /\ Residual(AsSeq(procs[p].cmd, 0)) # << >>

\* the tokens of the pipeline that begins at index s of the line, without
\* the "&" that ends it
PipelineTokens(s) ==
  LET t == [i \in 1..(NextOperator(tokens, s) - s) |-> tokens[s + i - 1]]
  IN IF t # << >> /\ t[Len(t)] = AMP THEN SubSeq(t, 1, Len(t) - 1) ELSE t

\* a pipeline with an empty segment: a "|" first, last or next to another
HasEmptySegment(t) ==
  /\ t # << >>
  /\ \/ t[1] = PIPE
     \/ t[Len(t)] = PIPE
     \/ \E i \in 1..(Len(t) - 1) : t[i] = PIPE /\ t[i + 1] = PIPE

\* C15: no child process is spawned for any segment of a pipeline that has
\* an empty segment.
C15_EmptySegmentRejected ==
  \A p \in DOMAIN procs :
    procs[p].ln = nlines => ~HasEmptySegment(PipelineTokens(procs[p].seg))

\* a redirection operator is the last token of a command segment of the line
DanglingOperator ==
  \E i \in DOMAIN tokens :
    /\ tokens[i] \in RedirOps
    /\ \/ tokens[i + 1] \in {NULL, PIPE, AND, OR}
       \/ tokens[i + 1] = AMP /\ tokens[i + 2] \in {NULL, AND, OR}

\* C16: when a redirection operator is the last token of a command segment,
\* no command of the line is executed, the other segments of the same
\* pipeline included.
C16_DanglingAbandons ==
  DanglingOperator =>
    \A p \in DOMAIN procs : procs[p].ln = nlines => procs[p].st # "running"

\* the redirections of a segment, each operator with its target, from left
\* to right
RECURSIVE Redirections(_)
Redirections(t) ==
  IF t = << >> THEN << >>
  ELSE IF Head(t) \in RedirOps
  THEN (IF Len(t) = 1 THEN << >>
        ELSE <<[op |-> t[1], target |-> t[2]]>> \o Redirections(Tail(Tail(t))))
  ELSE Redirections(Tail(t))

IsOutput(r) == r.op \in {GT, GTGT}
IsInput(r) == r.op = LT
OutputsOf(p) == SelectSeq(Redirections(AsSeq(procs[p].cmd, 0)), IsOutput)
InputsOf(p) == SelectSeq(Redirections(AsSeq(procs[p].cmd, 0)), IsInput)
ModeOf(r) == IF r.op = GTGT THEN "append" ELSE IF r.op = GT THEN "trunc" ELSE "read"

\* C17: a command of a pipeline whose segment redirects a stream that is
\* also connected to a pipe runs with the stream bound to the file.
C17_FileBeatsPipe ==
  \A p \in DOMAIN procs :
    (procs[p].called /\ procs[p].n > 1)
      => /\ (procs[p].idx # procs[p].n - 1 /\ OutputsOf(p) # << >>)
              => procs[p].stdout.kind = "file"
         /\ (procs[p].idx # 0 /\ InputsOf(p) # << >>)
              => procs[p].stdin.kind = "file"

\* a running command that feeds a pipe and writes to a file
C17_Witness ==
  \E p \in DOMAIN procs :
    /\ procs[p].st = "running" /\ procs[p].n > 1
    /\ procs[p].idx # procs[p].n - 1
    /\ OutputsOf(p) # << >>
    /\ procs[p].stdout.kind = "file"

\* a running command that is fed by a pipe and reads a file
C17_InputCase ==
  \E p \in DOMAIN procs :
    /\ procs[p].st = "running" /\ procs[p].n > 1
    /\ procs[p].idx # 0
    /\ InputsOf(p) # << >>
    /\ procs[p].stdin.kind = "file"

\* C18: with several output redirections, or several input redirections,
\* in its segment a command runs with the stream bound to the target of the
\* last one, in the mode of the last one.
C18_LastRedirectionWins ==
  \A p \in DOMAIN procs :
    procs[p].called
      => LET outs == OutputsOf(p)
             ins == InputsOf(p)
         IN /\ outs # << >> =>
                 procs[p].stdout = File(outs[Len(outs)].target,
                                        ModeOf(outs[Len(outs)]))
            /\ ins # << >> =>
                 procs[p].stdin = File(ins[Len(ins)].target, "read")

\* a running command whose two output redirections differ in target and mode
C18_Witness ==
  \E p \in DOMAIN procs :
    /\ procs[p].st = "running"
    /\ Len(OutputsOf(p)) = 2
    /\ OutputsOf(p)[1].target # OutputsOf(p)[2].target
    /\ OutputsOf(p)[1].op # OutputsOf(p)[2].op
    /\ procs[p].stdout.name = OutputsOf(p)[2].target

\* the streams of process p after the pipe rebinding alone
PipedStdin(p) ==
  IF procs[p].n > 1 /\ procs[p].idx # 0
  THEN PipeEnd(procs[p].idx - 1, "read") ELSE TTY
PipedStdout(p) ==
  IF procs[p].n > 1 /\ procs[p].idx # procs[p].n - 1
  THEN PipeEnd(procs[p].idx, "write") ELSE TTY

\* C19: when handle_redirection returns 0, the argument list is the segment
\* without its redirection operators and their targets, the other tokens in
\* their order; a segment without operator is left as it was and no stream
\* is rebound.
C19_ResidualArguments ==
  \A p \in DOMAIN procs :
    procs[p].called
      => /\ AsSeq(procs[p].argv, 0) = Residual(AsSeq(procs[p].cmd, 0))
         /\ Redirections(AsSeq(procs[p].cmd, 0)) = << >>
              => /\ procs[p].argv = procs[p].cmd
                 /\ procs[p].stdin = PipedStdin(p)
                 /\ procs[p].stdout = PipedStdout(p)

\* a command with a redirection between its arguments is about to execute
C19_Witness ==
  \E p \in DOMAIN procs :
    /\ procs[p].called
    /\ AsSeq(procs[p].cmd, 0) = <<<<"a">>, <<"x">>, GT, <<"f">>, <<"y">>>>
    /\ AsSeq(procs[p].argv, 0) = <<<<"a">>, <<"x">>, <<"y">>>>

\* process p is the last one forked, of a single command with exactly one
\* redirection, has terminated, and nothing has run in the background
LastRun(p) ==
  /\ p = Len(procs)
  /\ procs[p].n = 1
  /\ procs[p].called
  /\ Terminated(p)
  /\ Len(Redirections(AsSeq(procs[p].cmd, 0))) = 1
  /\ \A q \in DOMAIN procs : procs[q].bg = 0

\* C20: after cmd > f the file f holds exactly the output of that run;
\* after cmd >> f it holds what it held before followed by the output of
\* that run; after two runs of cmd >> f in a row it holds what it held
\* before followed by the outputs of both, in the order of the runs.
C20_TruncateAndAppend ==
  \A p \in DOMAIN procs :
    LastRun(p) =>
      LET o == procs[p].stdout
      IN /\ (o.kind = "file" /\ o.mode = "trunc")
              => files[o.name] = procs[p].out
         /\ (o.kind = "file" /\ o.mode = "append")
              => /\ files[o.name] = procs[p].prior \o procs[p].out
                 /\ \A q \in DOMAIN procs :
                      (/\ q = p - 1
                       /\ procs[q].n = 1
                       /\ procs[q].called
                       /\ procs[q].stdout = o
                       /\ Len(Redirections(AsSeq(procs[q].cmd, 0))) = 1)
                        => files[o.name] =
                             procs[q].prior \o procs[q].out \o procs[p].out

\* two runs have appended their outputs to a file that held something
C20_Witness ==
  /\ Len(procs) = 2
  /\ LastRun(2)
  /\ procs[1].stdout = File(<<"f">>, "append")
  /\ procs[2].stdout = File(<<"f">>, "append")
  /\ procs[1].out # << >>
  /\ procs[2].out # << >>
  /\ procs[1].prior # << >>
  /\ files[<<"f">>] = procs[1].prior \o procs[1].out \o procs[2].out

\* the pipe() loop of sh_execute_simple has failed in this step: the "|"
\* tokens have been replaced and the shell has left sh_execute_simple
PipeFailed ==
  /\ pc = "simple"
  /\ pc' = "exited"
  /\ PipeIndices(args, start) # {}
  /\ PipeIndices(args', start) = {}

\* a fork() of the fork loop of a pipeline has failed in this step
ForkFailed == pc = "fork" /\ num_commands > 1 /\ pid' = -1

\* C21: a pipe() or fork() that fails while a pipeline is set up aborts the
\* pipeline only: the shell process does not exit.
C21_SetupFailureContinues ==
  [][~PipeFailed /\ (ForkFailed => pc' # "exited")]_vars

Delimiters == {" ", "\t", "\r", "\n", BEL}

\* the positions of a line where a maximal run of non-delimiters begins
RunStarts(l) ==
  {i \in 1..Len(l) : l[i] \notin Delimiters /\ (i = 1 \/ l[i - 1] \in Delimiters)}

\* the position where the run that begins at i ends
RunEnd(l, i) ==
  CHOOSE j \in i..Len(l) :
    /\ \A k \in i..j : l[k] \notin Delimiters
    /\ j = Len(l) \/ l[j + 1] \in Delimiters

\* C23: the tokens sh_split_line returns are the maximal runs of
\* non-delimiter characters of the line, in their order: none is empty or
\* holds a delimiter, and a line of delimiters only has no token.
C23_TokensAreMaximalRuns ==
  LET toks == AsSeq(tokens, 0)
      starts == RunStarts(line)
  IN /\ Len(toks) = Cardinality(starts)
     /\ tokens[Len(toks)] = NULL
     /\ \A i \in starts :
          toks[Cardinality({s \in starts : s < i}) + 1]
            = SubSeq(line, i, RunEnd(line, i))
     /\ \A k \in 1..Len(toks) :
          /\ toks[k] # << >>
          /\ \A c \in 1..Len(toks[k]) : toks[k][c] \notin Delimiters

\* a line with two tokens that a space and a tab separate has been split
C23_Witness ==
  /\ line = <<"a", " ", "\t", "b">>
  /\ AsSeq(tokens, 0) = <<<<"a">>, <<"b">>>>

\* a line of delimiters only has been split into no token
C23_BlankLine ==
  /\ line = <<" ", "\t", "\n">>
  /\ tokens[0] = NULL

\* the line a sequence of keystrokes without tab spells: every regular
\* character is appended and every backspace removes the last character,
\* if there is one
RECURSIVE Typed(_)
Typed(ks) ==
  IF ks = << >> THEN << >>
  ELSE LET before == Typed(SubSeq(ks, 1, Len(ks) - 1))
           k == ks[Len(ks)]
       IN IF k \in {DEL, BS}
          THEN (IF before = << >> THEN << >>
                ELSE SubSeq(before, 1, Len(before) - 1))
          ELSE Append(before, k)

\* sh_read_line has returned after a line terminator was read
LineEntered ==
  /\ pc = "body"
  /\ keys # << >>
  /\ keys[Len(keys)] \in {"\r", "\n"}

\* C24: for keystrokes that end in a carriage return or a newline,
\* sh_read_line returns the characters typed, with the last one removed
\* for each backspace (none when the line is empty), and without the
\* terminator.
C24_LineIsWhatWasTyped ==
  (LineEntered /\ \A i \in 1..Len(keys) : keys[i] # "\t")
    => line = Typed(SubSeq(keys, 1, Len(keys) - 1))

\* a line was entered with a backspace on the empty line, a character, a
\* character erased and a terminator
C24_Witness ==
  /\ LineEntered
  /\ keys = <<BS, "a", "b", DEL, "\r">>
  /\ line = <<"a">>

\* the current word of a line: its longest suffix without a space
WordOf(l) ==
  LET n == CHOOSE k \in 0..Len(l) :
             /\ \A i \in (Len(l) - k + 1)..Len(l) : l[i] # " "
             /\ k = Len(l) \/ l[Len(l) - k] = " "
  IN SubSeq(l, Len(l) - n + 1, Len(l))

\* the entries of the directory a word is a prefix of
Completions(w) ==
  {e \in entries : Len(e) >= Len(w) /\ \A i \in 1..Len(w) : e[i] = w[i]}

\* C25: on a tab the line and the cursor stay as they are when no entry or
\* several entries of the directory begin with the current word; when
\* exactly one does (and the directory could be read), the current word
\* becomes that entry and the cursor advances by the characters appended.
C25_TabCompletes ==
  [][(pc = "read" /\ keys' = Append(keys, "\t"))
       => LET l == SubSeq(buffer, 1, pos)
              w == WordOf(l)
              c == Completions(w)
          IN /\ Cardinality(c) # 1 => /\ buffer' = buffer
                                      /\ pos' = pos
             /\ (Cardinality(c) = 1 /\ opened')
                  => LET e == CHOOSE x \in c : TRUE
                     IN /\ SubSeq(buffer', 1, pos')
                             = SubSeq(l, 1, Len(l) - Len(w)) \o e
                        /\ WordOf(SubSeq(buffer', 1, pos')) = e
                        /\ pos' = pos + (Len(e) - Len(w))]_vars

\* a tab has completed the second word of a line by two characters
C25_Witness ==
  /\ pc = "read"
  /\ keys = <<"b", " ", "a", "\t">>
  /\ opened
  /\ pos = 5
  /\ SubSeq(buffer, 1, pos) = <<"b", " ", "a", "b", "a">>

\* C26: the statements a line holds between its ";" are executed one by
\* one: no command is handed a ";" among its arguments.
C26_StatementsSeparated ==
  \A p \in DOMAIN procs :
    \A i \in DOMAIN procs[p].cmd : procs[p].cmd[i] # SEMI

\* C27: after a foreground cd to a directory has succeeded, the working
\* directory of the shell process is that directory.
C27_CdChangesShell ==
  \A p \in DOMAIN procs :
    (/\ ChainDone
     /\ procs[p].ln = nlines
     /\ procs[p].argv[0] = CD
     /\ procs[p].argv[1] # NULL
     /\ Terminated(p)
     /\ procs[p].status = EXIT_SUCCESS) => cwd = procs[p].argv[1]

\* the number of "|" tokens of a sequence of tokens
RECURSIVE CountPipes(_)
CountPipes(t) ==
  IF t = << >> THEN 0
  ELSE (IF Head(t) = PIPE THEN 1 ELSE 0) + CountPipes(Tail(t))

\* C28: for a pipeline of N segments there are N - 1 pipes and N children
\* once the fork loop is done, and each child calls execvp with its input
\* on the read end of the pipe before it and its output on the write end of
\* the pipe after it, where its segment does not redirect the stream; the
\* input of the first and the output of the last are those of the shell.
C28_PipeChain ==
  /\ pc = "close"
       => /\ num_commands = CountPipes(PipelineTokens(start)) + 1
          /\ Cardinality(Pipeline(start)) = num_commands
          /\ Cardinality(pipefds) = 2 * (num_commands - 1)
  /\ \A p \in DOMAIN procs :
       (procs[p].called /\ procs[p].n > 1)
         => /\ InputsOf(p) = << >> => procs[p].stdin = PipedStdin(p)
            /\ OutputsOf(p) = << >> => procs[p].stdout = PipedStdout(p)

\* the three commands of a pipeline run, the middle one between two pipes
C28_Witness ==
  /\ pc = "wait"
  /\ Cardinality(Pipeline(start)) = 3
  /\ \A p \in Pipeline(start) : procs[p].st = "running"
  /\ \E p \in Pipeline(start) :
       /\ procs[p].idx = 1
       /\ procs[p].stdin = PipeEnd(0, "read")
       /\ procs[p].stdout = PipeEnd(1, "write")
  /\ \E p \in Pipeline(start) :
       procs[p].idx = 0 /\ procs[p].stdin = TTY
  /\ \E p \in Pipeline(start) :
       procs[p].idx = 2 /\ procs[p].stdout = TTY

\* C29: a child of a pipeline that calls execvp holds no pipe descriptor
\* besides its standard streams, and outside the set-up of a pipeline the
\* shell holds no pipe descriptor.
C29_NoPipeLeft ==
  /\ \A p \in DOMAIN procs : procs[p].called => procs[p].fds = {}
  /\ pc \notin {"fork", "close", "exited"} => pipefds = {}

\* the shell waits for a pipeline of three running commands that were
\* forked with four pipe descriptors each
C29_Witness ==
  /\ pc = "wait"
  /\ pipefds = {}
  /\ Cardinality(Pipeline(start)) = 3
  /\ \A p \in Pipeline(start) :
       procs[p].st = "running" /\ procs[p].fds = {}

\* C30: once the shell waits for a foreground pipeline, all its children
\* terminate and the shell comes back to the prompt, when the first command
\* ends by itself and the others end after end-of-file on their input.
C30_PipelineDrains ==
  (pc = "wait") ~> (pc = "prompt" /\ \A p \in DOMAIN procs : Terminated(p))

\* the last command of a pipeline of three still runs, with end-of-file on
\* its pipe, after the two before it have ended
C30_Witness ==
  /\ pc = "wait"
  /\ \E p \in Pipeline(start) :
       /\ procs[p].n = 3 /\ procs[p].idx = 2
       /\ procs[p].st = "running"
       /\ procs[p].stdin = PipeEnd(1, "read")
       /\ EofOnInput(p)
       /\ \A q \in Pipeline(start) \ {p} : Terminated(q)


\* the shell process is inside the part of sh_execute_simple that works
\* with the pipefds array
InPipelineSetup == pc \in {"simple", "fork", "close"}

\* C31: every pipe descriptor is closed in each process that holds it, on
\* every path: once the shell has left the set-up of a pipeline, by
\* whatever path (the failure of pipe() or fork() included), it holds no
\* pipe descriptor it has not closed, and no child that has gone past its
\* own set-up holds one.
C31_DescriptorsClosed ==
  /\ ~InPipelineSetup => pipefds = {}
  /\ \A p \in DOMAIN procs : procs[p].st # "forked" => procs[p].fds = {}


\* the step in which sh_execute_logical calls sh_execute_simple
CallsSimple == pc = "logical" /\ pc' = "simple"

\* the step in which sh_execute_logical returns to sh_loop
LogicalReturns ==
  /\ pc \in {"logical", "simple_ret"}
  /\ pc' \notin {"logical", "simple", "simple_ret"}

\* the foreground processes forked for the segments of this line that
\* begin before index s
EarlierForeground(s) ==
  {p \in DOMAIN procs :
     procs[p].ln = nlines /\ procs[p].bg = 0 /\ procs[p].seg < s}

\* C32: sh_execute_logical executes the segments of a chain from left to
\* right, starts a segment only when every process of the foreground
\* pipelines of the segments before it has terminated and been waited for,
\* and returns what sh_execute_simple returned for the last segment it
\* executed.
C32_ChainInOrder ==
  [][/\ CallsSimple
        => /\ \A s \in ran : s < start
           /\ \A p \in EarlierForeground(start) : Terminated(p)
     /\ (LogicalReturns /\ ran # {}) => status' = <<ret>>]_vars


\* the step for a Tab in which autocomplete finds several matches
TabLists ==
  /\ keys' = Append(keys, "\t")
  /\ opened'
  /\ MatchCount(buffer, pos, entries) > 1

\* C33: when Tab yields several matches, the text redrawn after the prompt
\* is the line as entered so far, the first pos bytes of the buffer: no
\* byte that was deleted and no byte that was never typed is in it.
C33_RedrawIsLine ==
  [][TabLists => redrawn' = SubSeq(buffer, 1, pos)]_vars


\* the step of sh_read_line that stores bytes in the buffer: those of
\* indices pos to pos' - 1
StoresBytes == keys' # keys /\ pos' > pos

\* the step in which the terminator of the line is stored, at index pos
StoresTerminator == keys' # keys /\ pc = "read" /\ pc' = "body"

\* C34: every byte sh_read_line or autocomplete stores in the line buffer
\* is stored at an index below the size the buffer has at that moment.
C34_WritesInBounds ==
  [][/\ StoresBytes => pos' - 1 < bufsize
     /\ StoresTerminator => pos < bufsize]_vars


\* the bytes of the block of history[i]
EntryText(i) == heap[BlockOf(history[i])].text

\* the string add_to_history was called with when it saved what is now
\* history[i]
SavedAs(i) == recorded[Len(recorded) - history_count + i + 1]

\* every entry of the history is a live block of its own, apart from the
\* block of line, and holds the full text it was saved with
HistoryIntact ==
  \A i \in 0..(history_count - 1) :
    /\ history[i] # NULL
    /\ history[i] # line
    /\ \A j \in 0..(history_count - 1) : j # i => history[j] # history[i]
    /\ heap[BlockOf(history[i])].live
    /\ EntryText(i) = SavedAs(i)

\* the step of sh_loop that resolves an invocation to an entry, saves the
\* line and splits it
RecallHit ==
  /\ pc = "body"
  /\ pc' = "run"
  /\ IsInvocation(StringAt(heap, line, << >>))

\* C35: each history entry is a copy of its own with the full text of the
\* line as resolved: splitting, executing and freeing the line change no
\* entry, and the line `!n` is split into the tokens of the whole command
\* of entry n, also when saving the recalled line evicts that entry.
C35_EntriesAreCopies ==
  [][/\ HistoryIntact'
     /\ RecallHit => tokens' = sh_split_line(EntryText(recall_idx' - 1))]_vars

\* `!1` with a full history: the entry it was copied from is evicted and
\* freed, the copy is saved as the newest entry, and the line is split
C35_Witness ==
  /\ pc = "run"
  /\ recall_idx = 1
  /\ recall_res # NULL
  /\ ~heap[BlockOf(recall_res)].live
  /\ Len(recorded) > MAX_HISTORY
  /\ recorded[Len(recorded)] = recorded[Len(recorded) - MAX_HISTORY]
  /\ EntryText(MAX_HISTORY - 1) = recorded[Len(recorded)]
  /\ NUL \in {heap[BlockOf(line)].text[k] : k \in 1..Len(heap[BlockOf(line)].text)}
  /\ tokens = sh_split_line(recorded[Len(recorded)])
  /\ Len(tokens[0]) > 0 /\ tokens[1] # NULL

====
